---- MODULE Spec2Model ----
(***************************************************************************)
(* Model of the LongLife Nutri Search API (src/main.py): a fixed in-memory *)
(* product catalog served by five read-only HTTP handlers.                 *)
(*                                                                         *)
(* Text is modelled as a sequence of one-character strings so that         *)
(* str.lower() and the substring operator `in` are computed character by   *)
(* character.  Decimal fields are scaled to integers: price is in cents    *)
(* and rating in tenths.                                                   *)
(***************************************************************************)
EXTENDS Integers, Sequences, FiniteSets, TLC

----------------------------------------------------------------------------
(* Text helpers: str.lower() and `sub in s`.                               *)

\* The cased letters of ASCII and Latin-1, upper case and lower case, in
\* matching positions.  Every cased character of the catalog is covered.
UpperChars ==
    <<"A", "B", "C", "D", "E", "F", "G", "H", "I", "J", "K", "L", "M",
      "N", "O", "P", "Q", "R", "S", "T", "U", "V", "W", "X", "Y", "Z",
      "À", "Á", "Â", "Ã", "Ä", "Å", "Æ", "Ç", "È", "É", "Ê", "Ë", "Ì",
      "Í", "Î", "Ï", "Ð", "Ñ", "Ò", "Ó", "Ô", "Õ", "Ö", "Ø", "Ù", "Ú",
      "Û", "Ü", "Ý", "Þ">>

LowerChars ==
    <<"a", "b", "c", "d", "e", "f", "g", "h", "i", "j", "k", "l", "m",
      "n", "o", "p", "q", "r", "s", "t", "u", "v", "w", "x", "y", "z",
      "à", "á", "â", "ã", "ä", "å", "æ", "ç", "è", "é", "ê", "ë", "ì",
      "í", "î", "ï", "ð", "ñ", "ò", "ó", "ô", "õ", "ö", "ø", "ù", "ú",
      "û", "ü", "ý", "þ">>

\* The lower-case form of each upper-case character.
LowerOf ==
    [c \in {UpperChars[k] : k \in 1..Len(UpperChars)} |->
        LowerChars[CHOOSE k \in 1..Len(UpperChars) : UpperChars[k] = c]]

\* str.lower() on one character: uncased characters are kept.
lower_char(c) == IF c \in DOMAIN LowerOf THEN LowerOf[c] ELSE c

\* Variant of lower: the text is compared as written, case included.
lower_unchanged(s) == s

\* str.lower().
lower(s) == [k \in 1..Len(s) |-> lower_char(s[k])]

\* Python's `sub in s` on strings.  Both operands are evaluated once, as
\* a and b, before the offsets are tried.
contains(sub, s) ==
    \E a \in {sub}, b \in {s} :
        \E k \in 0..(Len(b) - Len(a)) : SubSeq(b, k + 1, k + Len(a)) = a

\* Optional[T]: None, or a present value.
None == [is_none |-> TRUE]

Some(v) == [is_none |-> FALSE, value |-> v]

----------------------------------------------------------------------------
(* The literal catalog of src/main.py, lines 18-79.                        *)

Product1 ==
    [id          |-> 1,
     name        |-> <<"W", "h", "e", "y", " ", "P", "r", "o", "t", "e", "i", "n", " ", "P",
                      "r", "e", "m", "i", "u", "m">>,
     description |-> <<"P", "r", "o", "t", "e", "í", "n", "a", " ", "d", "e", " ", "a", "l",
                      "t", "a", " ", "q", "u", "a", "l", "i", "d", "a", "d", "e", " ", "p",
                      "a", "r", "a", " ", "g", "a", "n", "h", "o", " ", "d", "e", " ", "m",
                      "a", "s", "s", "a", " ", "m", "u", "s", "c", "u", "l", "a", "r">>,
     price       |-> 8999,
     category    |-> <<"P", "r", "o", "t", "e", "í", "n", "a", "s">>,
     image       |-> "https://via.placeholder.com/300x200/4CAF50/white?text=Whey+Protein",
     rating      |-> 48,
     reviews     |-> 245]

Product2 ==
    [id          |-> 2,
     name        |-> <<"B", "C", "A", "A", " ", "2", ":", "1", ":", "1">>,
     description |-> <<"A", "m", "i", "n", "o", "á", "c", "i", "d", "o", "s", " ", "e", "s",
                      "s", "e", "n", "c", "i", "a", "i", "s", " ", "p", "a", "r", "a", " ",
                      "r", "e", "c", "u", "p", "e", "r", "a", "ç", "ã", "o", " ", "m", "u",
                      "s", "c", "u", "l", "a", "r">>,
     price       |-> 4599,
     category    |-> <<"A", "m", "i", "n", "o", "á", "c", "i", "d", "o", "s">>,
     image       |-> "https://via.placeholder.com/300x200/2196F3/white?text=BCAA",
     rating      |-> 46,
     reviews     |-> 189]

Product3 ==
    [id          |-> 3,
     name        |-> <<"C", "r", "e", "a", "t", "i", "n", "a", " ", "M", "o", "n", "o", "h",
                      "i", "d", "r", "a", "t", "a", "d", "a">>,
     description |-> <<"S", "u", "p", "l", "e", "m", "e", "n", "t", "o", " ", "p", "a", "r",
                      "a", " ", "f", "o", "r", "ç", "a", " ", "e", " ", "r", "e", "s", "i",
                      "s", "t", "ê", "n", "c", "i", "a", " ", "m", "u", "s", "c", "u", "l",
                      "a", "r">>,
     price       |-> 3599,
     category    |-> <<"C", "r", "e", "a", "t", "i", "n", "a">>,
     image       |-> "https://via.placeholder.com/300x200/FF9800/white?text=Creatina",
     rating      |-> 49,
     reviews     |-> 312]

Product4 ==
    [id          |-> 4,
     name        |-> <<"M", "u", "l", "t", "i", "v", "i", "t", "a", "m", "í", "n", "i", "c",
                      "o", " ", "P", "r", "e", "m", "i", "u", "m">>,
     description |-> <<"C", "o", "m", "p", "l", "e", "x", "o", " ", "v", "i", "t", "a", "m",
                      "í", "n", "i", "c", "o", " ", "c", "o", "m", "p", "l", "e", "t", "o",
                      " ", "p", "a", "r", "a", " ", "s", "a", "ú", "d", "e", " ", "g", "e",
                      "r", "a", "l">>,
     price       |-> 5599,
     category    |-> <<"V", "i", "t", "a", "m", "i", "n", "a", "s">>,
     image       |-> "https://via.placeholder.com/300x200/9C27B0/white?text=Vitaminas",
     rating      |-> 47,
     reviews     |-> 156]

Product5 ==
    [id          |-> 5,
     name        |-> <<"Ô", "m", "e", "g", "a", " ", "3", " ", "U", "l", "t", "r", "a">>,
     description |-> <<"Á", "c", "i", "d", "o", "s", " ", "g", "r", "a", "x", "o", "s", " ",
                      "e", "s", "s", "e", "n", "c", "i", "a", "i", "s", " ", "p", "a", "r",
                      "a", " ", "s", "a", "ú", "d", "e", " ", "c", "a", "r", "d", "i", "o",
                      "v", "a", "s", "c", "u", "l", "a", "r">>,
     price       |-> 4299,
     category    |-> <<"Ô", "m", "e", "g", "a", "s">>,
     image       |-> "https://via.placeholder.com/300x200/00BCD4/white?text=Omega+3",
     rating      |-> 45,
     reviews     |-> 98]

Product6 ==
    [id          |-> 6,
     name        |-> <<"N", "o", "t", "e", "b", "o", "o", "k", " ", "G", "a", "m", "e", "r",
                      " ", "A", "l", "t", "o", " ", "D", "e", "s", "e", "m", "p", "e", "n",
                      "h", "o">>,
     description |-> <<"N", "o", "t", "e", "b", "o", "o", "k", " ", "p", "a", "r", "a", " ",
                      "j", "o", "g", "o", "s", " ", "e", " ", "t", "r", "a", "b", "a", "l",
                      "h", "o", " ", "p", "e", "s", "a", "d", "o">>,
     price       |-> 289999,
     category    |-> <<"E", "l", "e", "t", "r", "ô", "n", "i", "c", "o", "s">>,
     image       |-> "https://via.placeholder.com/300x200/607D8B/white?text=Notebook",
     rating      |-> 44,
     reviews     |-> 67]

InitialProducts ==
    <<Product1, Product2, Product3, Product4, Product5, Product6>>

----------------------------------------------------------------------------
(* Request inputs.                                                         *)

QProtein == <<"p", "r", "o", "t", "e", "i", "n">>

QProteina == <<"p", "r", "o", "t", "e", "í", "n", "a">>

QPremiumUpper == <<"P", "R", "E", "M", "I", "U", "M">>

QCreatina == <<"C", "r", "e", "a", "t", "i", "n", "a">>

QOmegaUpper == <<"Ô", "M", "E", "G", "A">>

QMuscular == <<"m", "u", "s", "c", "u", "l", "a", "r">>

QPara == <<"p", "a", "r", "a">>

QNoMatch == <<"x", "y", "z">>

\* Non-empty query strings sent to /search.
QueryStrings ==
    {QProtein, QProteina, QPremiumUpper, QCreatina, QOmegaUpper, QMuscular,
     QPara, QNoMatch}

\* Values of the optional query parameter: absent, empty, or a string.
Queries == {None, Some(<<>>)} \cup {Some(q) : q \in QueryStrings}

\* Largest small product id requested from /products/{product_id}.
MaxProbeId == 7

\* Product ids requested: negative, zero, every catalog id, and ids past
\* the end of the catalog.
ProbeIds == ((0 - 2)..MaxProbeId) \cup {999}

----------------------------------------------------------------------------
(* State.                                                                  *)

VARIABLES
    MOCK_PRODUCTS,  \* the module-level product list
    request,        \* the request served last, handlers run one at a time
    response,       \* the value its handler returned
    tasks,          \* per in-flight request: the position and the locals
                    \* of its handler, when handlers run interleaved
    observed        \* a client's note of one earlier /search reply

vars == <<MOCK_PRODUCTS, request, response, tasks, observed>>

----------------------------------------------------------------------------
(* Handler bodies as functions of the state they read.                     *)

\* Variant of matches: only the name is searched.
matches_name_only(query_lower, product) ==
    contains(query_lower, lower(product.name))

\* The condition of lines 106-108.
matches(query_lower, product) ==
    \/ contains(query_lower, lower(product.name))
    \/ contains(query_lower, lower(product.description))
    \/ contains(query_lower, lower(product.category))

\* Variant of filter_products: one test and one append per field, so a
\* product is appended once for every field that matches.
RECURSIVE filter_products_per_field(_, _, _, _)
filter_products_per_field(products, query_lower, i, filtered_products) ==
    IF i > Len(products)
    THEN filtered_products
    ELSE LET product == products[i]
             hit(field) == IF contains(query_lower, lower(field))
                           THEN <<product>>
                           ELSE <<>>
         IN  filter_products_per_field(products, query_lower, i + 1,
                 filtered_products \o hit(product.name)
                     \o hit(product.description) \o hit(product.category))

\* The loop of lines 103-109, from index i with the list built so far.
RECURSIVE filter_products(_, _, _, _)
filter_products(products, query_lower, i, filtered_products) ==
    IF i > Len(products)
    THEN filtered_products
    ELSE filter_products(products, query_lower, i + 1,
             IF matches(query_lower, products[i])
             THEN Append(filtered_products, products[i])
             ELSE filtered_products)

\* Variant of query_missing: `query is None`, which lets "" through.
query_is_none(query) == query.is_none

\* `not query` for an Optional[str]: None and "" are falsy.
query_missing(query) == query.is_none \/ Len(query.value) = 0

\* The value returned by search_products.
search_result(products, query) ==
    IF query_missing(query)
    THEN [success  |-> FALSE,
          message  |-> "Query parameter is required",
          products |-> <<>>]
    ELSE LET query_lower == lower(query.value)
             filtered_products == filter_products(products, query_lower, 1, <<>>)
         IN  [success  |-> TRUE,
              query    |-> query.value,
              total    |-> Len(filtered_products),
              products |-> filtered_products]

\* Variant of first_with_id: the scan stops one product early.
RECURSIVE first_with_id_skipping_last(_, _, _)
first_with_id_skipping_last(products, product_id, i) ==
    IF i >= Len(products)
    THEN None
    ELSE IF products[i].id = product_id
         THEN Some(products[i])
         ELSE first_with_id_skipping_last(products, product_id, i + 1)

\* next((p for p in MOCK_PRODUCTS if p["id"] == product_id), None), from
\* index i.
RECURSIVE first_with_id(_, _, _)
first_with_id(products, product_id, i) ==
    IF i > Len(products)
    THEN None
    ELSE IF products[i].id = product_id
         THEN Some(products[i])
         ELSE first_with_id(products, product_id, i + 1)

\* `not product`: None and the empty dict are falsy.
product_missing(product) == product.is_none \/ DOMAIN product.value = {}

\* Variant of get_product_result: MOCK_PRODUCTS[product_id - 1], where a
\* negative index counts from the end of the list.
get_product_result_by_index(products, product_id) ==
    LET n == Len(products)
        index == product_id - 1
    IN  IF index \in 0..(n - 1)
        THEN [success |-> TRUE, product |-> products[index + 1]]
        ELSE IF index \in (0 - n)..(0 - 1)
             THEN [success |-> TRUE, product |-> products[n + index + 1]]
             ELSE [success |-> FALSE, message |-> "Product not found"]

\* The value returned by get_product.
get_product_result(products, product_id) ==
    LET product == first_with_id(products, product_id, 1)
    IN  IF product_missing(product)
        THEN [success |-> FALSE, message |-> "Product not found"]
        ELSE [success |-> TRUE, product |-> product.value]

\* Variant of category_set: the first product is skipped.
category_set_skipping_first(products) ==
    {products[i].category : i \in 2..Len(products)}

\* set(p["category"] for p in MOCK_PRODUCTS).
category_set(products) == {products[i].category : i \in 1..Len(products)}

\* list(s) for a set s of category strings, when the interpreter iterates
\* category strings in the given order.
list_of_set(order, s) == SelectSeq(order, LAMBDA c : c \in s)

\* The value returned by get_categories.
get_categories_result(products, order) ==
    [success    |-> TRUE,
     categories |-> list_of_set(order, category_set(products))]

----------------------------------------------------------------------------
(* Start-up.                                                               *)

\* Every sequence that lists each member of s once.
RECURSIVE orders_of(_)
orders_of(s) ==
    IF s = {}
    THEN {<<>>}
    ELSE UNION {{<<c>> \o o : o \in orders_of(s \ {c})} : c \in s}

\* Every order in which the interpreter may iterate the category strings.
SetOrders == orders_of(category_set(InitialProducts))

\* Number of requests that can be in flight together.
NumRequests == 2

Requests == 1..NumRequests

NoRequest == [op |-> "none"]

NoResponse == [status |-> "none"]

Idle == [pc |-> "idle"]

Init ==
    /\ MOCK_PRODUCTS = InitialProducts
    /\ request = NoRequest
    /\ response = NoResponse
    /\ tasks = [r \in Requests |-> Idle]
    /\ observed = None

----------------------------------------------------------------------------
(* Handlers, one request at a time.  Each is an `async def` without an     *)
(* await: on the event loop it runs from entry to return as one step.      *)

root ==
    /\ request' = [op |-> "root"]
    /\ response' = [message |-> "LongLife Nutri Search API",
                    status  |-> "running"]
    /\ UNCHANGED <<MOCK_PRODUCTS, tasks, observed>>

health ==
    /\ request' = [op |-> "health"]
    /\ response' = [status |-> "healthy", message |-> "API is running"]
    /\ UNCHANGED <<MOCK_PRODUCTS, tasks, observed>>

\* Variant of search_products: the module-level list is filtered in place.
search_products_filtering_in_place(query) ==
    /\ request' = [op |-> "search", query |-> query]
    /\ response' = search_result(MOCK_PRODUCTS, query)
    /\ MOCK_PRODUCTS' = IF response'.success
                        THEN response'.products
                        ELSE MOCK_PRODUCTS
    /\ UNCHANGED <<tasks, observed>>

search_products(query) ==
    /\ request' = [op |-> "search", query |-> query]
    /\ response' = search_result(MOCK_PRODUCTS, query)
    /\ UNCHANGED <<MOCK_PRODUCTS, tasks, observed>>

get_product(product_id) ==
    /\ request' = [op |-> "get_product", product_id |-> product_id]
    /\ response' = get_product_result(MOCK_PRODUCTS, product_id)
    /\ UNCHANGED <<MOCK_PRODUCTS, tasks, observed>>

\* The order in which list() iterates the set is not specified: any order.
get_categories ==
    /\ request' = [op |-> "get_categories"]
    /\ \E order \in SetOrders :
           response' = get_categories_result(MOCK_PRODUCTS, order)
    /\ UNCHANGED <<MOCK_PRODUCTS, tasks, observed>>

Next ==
    \/ root
    \/ health
    \/ \E query \in Queries : search_products(query)
    \/ \E product_id \in ProbeIds : get_product(product_id)
    \/ get_categories

Spec == Init /\ [][Next]_vars

----------------------------------------------------------------------------
(* Handlers dispatched concurrently.  The HTTP layer may run several       *)
(* requests at once; each handler is split at every read of MOCK_PRODUCTS  *)
(* and the steps of different requests interleave in any order.            *)

\* Queries sent by the concurrent clients: absent, empty, and one that
\* matches two products.
ConcQueries == {None, Some(<<>>), Some(QPremiumUpper)}

\* Ids requested by the concurrent clients: one present, one not.
ConcIds == {3, 999}

\* Number of set iteration orders tried by the concurrent clients.
MaxOrders == 2

\* The categories in catalog order, rotated left by k.
rotated_order(k) ==
    LET first_seen == [i \in 1..Len(InitialProducts) |->
                          InitialProducts[i].category]
        n == Len(first_seen)
    IN  [i \in 1..n |-> first_seen[((i - 1 + k) % n) + 1]]

ConcSetOrders == {rotated_order(k) : k \in 0..(MaxOrders - 1)}

\* The handler of request r takes its next step to task t.
goto(r, t) ==
    /\ tasks' = [tasks EXCEPT ![r] = t]
    /\ UNCHANGED <<MOCK_PRODUCTS, request, response, observed>>

\* The handler of request r returns result.
return(r, req, result) ==
    goto(r, [pc |-> "done", request |-> req, result |-> result])

dispatch_search(r, query) ==
    /\ tasks[r].pc = "idle"
    /\ goto(r, [pc |-> "search_check", query |-> query])

dispatch_get_product(r, product_id) ==
    /\ tasks[r].pc = "idle"
    /\ goto(r, [pc |-> "get_next", product_id |-> product_id, i |-> 1])

dispatch_get_categories(r) ==
    /\ tasks[r].pc = "idle"
    /\ goto(r, [pc |-> "categories_loop", i |-> 1, categories |-> {}])

\* Lines 94-103: the query check, then the set-up of the loop.
search_products_check(r) ==
    /\ tasks[r].pc = "search_check"
    /\ LET query == tasks[r].query
       IN  IF query_missing(query)
           THEN return(r, [op |-> "search", query |-> query],
                       [success  |-> FALSE,
                        message  |-> "Query parameter is required",
                        products |-> <<>>])
           ELSE goto(r, [pc                |-> "search_loop",
                         query             |-> query,
                         query_lower       |-> lower(query.value),
                         i                 |-> 1,
                         filtered_products |-> <<>>])

\* Variant of search_products_loop: a matching product is moved out of
\* the module-level list into the result.
search_products_loop_popping(r) ==
    /\ tasks[r].pc = "search_loop"
    /\ LET t == tasks[r]
           hit == matches(t.query_lower, MOCK_PRODUCTS[t.i])
       IN  IF t.i > Len(MOCK_PRODUCTS)
           THEN return(r, [op |-> "search", query |-> t.query],
                       [success  |-> TRUE,
                        query    |-> t.query.value,
                        total    |-> Len(t.filtered_products),
                        products |-> t.filtered_products])
           ELSE /\ tasks' = [tasks EXCEPT ![r] = [t EXCEPT
                        !.i = t.i + 1,
                        !.filtered_products =
                            IF hit
                            THEN Append(t.filtered_products,
                                        MOCK_PRODUCTS[t.i])
                            ELSE t.filtered_products]]
                /\ MOCK_PRODUCTS' =
                       IF hit
                       THEN SubSeq(MOCK_PRODUCTS, 1, t.i - 1) \o
                            SubSeq(MOCK_PRODUCTS, t.i + 1, Len(MOCK_PRODUCTS))
                       ELSE MOCK_PRODUCTS
                /\ UNCHANGED <<request, response, observed>>

\* Lines 105-116: one iteration of the loop, or its end and the return.
search_products_loop(r) ==
    /\ tasks[r].pc = "search_loop"
    /\ LET t == tasks[r]
       IN  IF t.i > Len(MOCK_PRODUCTS)
           THEN return(r, [op |-> "search", query |-> t.query],
                       [success  |-> TRUE,
                        query    |-> t.query.value,
                        total    |-> Len(t.filtered_products),
                        products |-> t.filtered_products])
           ELSE goto(r, [t EXCEPT
                    !.i = t.i + 1,
                    !.filtered_products =
                        IF matches(t.query_lower, MOCK_PRODUCTS[t.i])
                        THEN Append(t.filtered_products, MOCK_PRODUCTS[t.i])
                        ELSE t.filtered_products])

\* Lines 121-126: the generator advances by one product, or next() ends
\* and the handler returns.
get_product_next(r) ==
    /\ tasks[r].pc = "get_next"
    /\ LET t == tasks[r]
           req == [op |-> "get_product", product_id |-> t.product_id]
       IN  IF t.i > Len(MOCK_PRODUCTS)
           THEN return(r, req,
                       [success |-> FALSE, message |-> "Product not found"])
           ELSE IF MOCK_PRODUCTS[t.i].id = t.product_id
                THEN IF product_missing(Some(MOCK_PRODUCTS[t.i]))
                     THEN return(r, req, [success |-> FALSE,
                                          message |-> "Product not found"])
                     ELSE return(r, req, [success |-> TRUE,
                                          product |-> MOCK_PRODUCTS[t.i]])
                ELSE goto(r, [t EXCEPT !.i = t.i + 1])

\* Variant of get_categories_loop: the module-level list is reversed in
\* place before it is scanned.
get_categories_loop_reversing(r) ==
    /\ tasks[r].pc = "categories_loop"
    /\ LET t == tasks[r]
           n == Len(MOCK_PRODUCTS)
           products == IF t.i = 1
                       THEN [k \in 1..n |-> MOCK_PRODUCTS[n + 1 - k]]
                       ELSE MOCK_PRODUCTS
       IN  IF t.i > n
           THEN \E order \in ConcSetOrders :
                    return(r, [op |-> "get_categories"],
                           [success    |-> TRUE,
                            categories |-> list_of_set(order, t.categories)])
           ELSE /\ tasks' = [tasks EXCEPT ![r] = [t EXCEPT
                        !.i = t.i + 1,
                        !.categories = t.categories \cup
                                           {products[t.i].category}]]
                /\ MOCK_PRODUCTS' = products
                /\ UNCHANGED <<request, response, observed>>

\* Lines 131-132: the set takes the category of one more product, or the
\* generator ends, list() iterates the set and the handler returns.
get_categories_loop(r) ==
    /\ tasks[r].pc = "categories_loop"
    /\ LET t == tasks[r]
       IN  IF t.i > Len(MOCK_PRODUCTS)
           THEN \E order \in ConcSetOrders :
                    return(r, [op |-> "get_categories"],
                           [success    |-> TRUE,
                            categories |-> list_of_set(order, t.categories)])
           ELSE goto(r, [t EXCEPT
                    !.i = t.i + 1,
                    !.categories = t.categories \cup
                                       {MOCK_PRODUCTS[t.i].category}])

\* The client keeps the /search reply of request r, to compare with later
\* replies to the same query.
observe(r) ==
    /\ tasks[r].pc = "done"
    /\ tasks[r].request.op = "search"
    /\ observed' = Some([query    |-> tasks[r].request.query,
                         response |-> tasks[r].result])
    /\ UNCHANGED <<MOCK_PRODUCTS, request, response, tasks>>

\* The HTTP layer sends the reply of request r; the slot is free again.
send(r) ==
    /\ tasks[r].pc = "done"
    /\ goto(r, Idle)

\* A step of the handler of request r.
handler_step(r) ==
    \/ search_products_check(r)
    \/ search_products_loop(r)
    \/ get_product_next(r)
    \/ get_categories_loop(r)

ConcNext ==
    \E r \in Requests :
        \/ \E query \in ConcQueries : dispatch_search(r, query)
        \/ \E product_id \in ConcIds : dispatch_get_product(r, product_id)
        \/ dispatch_get_categories(r)
        \/ handler_step(r)
        \/ send(r)

\* No handler awaits, blocks or retries: a handler that has a step to take
\* takes it, and the HTTP layer sends every reply.
ConcFairness ==
    \A r \in Requests : WF_vars(handler_step(r)) /\ WF_vars(send(r))

ConcSpec == Init /\ [][ConcNext]_vars /\ ConcFairness

\* The concurrent handlers, with a client that notes replies.
ClientNext ==
    \/ ConcNext
    \/ \E r \in Requests : observe(r)

ClientSpec == Init /\ [][ClientNext]_vars

----------------------------------------------------------------------------
(* Properties.                                                             *)

\* q occurs in s at consecutive positions.
occurs_in(q, s) ==
    \E k \in 0..(Len(s) - Len(q)) : \A j \in 1..Len(q) : s[k + j] = q[j]

\* The members of a sequence.
members(s) == {s[i] : i \in 1..Len(s)}

\* sub can be obtained from s by deleting elements.
RECURSIVE is_subsequence(_, _)
is_subsequence(sub, s) ==
    IF Len(sub) = 0 THEN TRUE
    ELSE IF Len(s) = 0 THEN FALSE
    ELSE IF Head(sub) = Head(s) THEN is_subsequence(Tail(sub), Tail(s))
    ELSE is_subsequence(sub, Tail(s))

\* The last request was a /search with a non-empty query.
searched_text == request.op = "search" /\ ~query_missing(request.query)

\* C1: for a non-empty query, search succeeds, returns exactly the catalog
\* products whose lower-cased name, description or category contains the
\* lower-cased query, and total is the number of products returned; when
\* nothing matches the result is still a success, empty and with total 0.
C1_SearchReturnsExactMatches ==
    searched_text =>
        LET q == lower(request.query.value)
            hits == {p \in members(MOCK_PRODUCTS) :
                        \/ occurs_in(q, lower(p.name))
                        \/ occurs_in(q, lower(p.description))
                        \/ occurs_in(q, lower(p.category))}
        IN  /\ response.success = TRUE
            /\ members(response.products) = hits
            /\ response.total = Len(response.products)
            /\ hits = {} => response.products = <<>> /\ response.total = 0

C1_Witness ==
    /\ request = [op |-> "search", query |-> Some(QMuscular)]
    /\ response.success = TRUE
    /\ response.total = 3

\* C2: search with an absent or empty query returns success=false, a
\* message and an empty product list; a failure-flagged search result never
\* carries a product.
C2_MissingQueryIsReported ==
    request.op = "search" =>
        /\ (request.query = None \/ request.query = Some(<<>>)) =>
               /\ response.success = FALSE
               /\ "message" \in DOMAIN response
               /\ response.message # ""
               /\ response.products = <<>>
        /\ response.success = FALSE => response.products = <<>>

C2_Witness ==
    /\ request = [op |-> "search", query |-> Some(<<>>)]
    /\ response.success = FALSE
    /\ response.products = <<>>

CreatinaName ==
    <<"C", "r", "e", "a", "t", "i", "n", "a", " ", "M", "o", "n", "o", "h",
      "i", "d", "r", "a", "t", "a", "d", "a">>

\* C3: get_product with the id of a catalog product P returns success=true
\* and P, which is the first product in catalog order with that id; id 3
\* returns the product named "Creatina Monohidratada".
C3_GetProductReturnsTheProduct ==
    request.op = "get_product" =>
        /\ \A i \in 1..Len(MOCK_PRODUCTS) :
               MOCK_PRODUCTS[i].id = request.product_id =>
                   /\ response.success = TRUE
                   /\ response.product = MOCK_PRODUCTS[i]
                   /\ \A j \in 1..(i - 1) :
                          MOCK_PRODUCTS[j].id # request.product_id
        /\ request.product_id = 3 =>
               /\ response.success = TRUE
               /\ response.product.name = CreatinaName

C3_Witness ==
    /\ request = [op |-> "get_product", product_id |-> 6]
    /\ response.success = TRUE
    /\ response.product = Product6

\* C4: get_product with an id that no catalog product has (0, negative ids
\* and 999 included) returns exactly {success: false, message: "Product not
\* found"}, without a product field.
C4_UnknownIdIsNotFound ==
    (/\ request.op = "get_product"
     /\ \A i \in 1..Len(MOCK_PRODUCTS) :
            MOCK_PRODUCTS[i].id # request.product_id) =>
        /\ response = [success |-> FALSE, message |-> "Product not found"]
        /\ "product" \notin DOMAIN response

C4_Witness ==
    /\ request = [op |-> "get_product", product_id |-> 0]
    /\ response.success = FALSE

\* C5: get_categories returns success=true and a list without duplicates
\* whose values are exactly the categories of the catalog products; over
\* the reference catalog it has 6 elements.
C5_CategoriesAreTheDistinctCategories ==
    request.op = "get_categories" =>
        LET categories == response.categories
        IN  /\ response.success = TRUE
            /\ \A i, j \in 1..Len(categories) :
                   categories[i] = categories[j] => i = j
            /\ \A i \in 1..Len(categories) :
                   \E k \in 1..Len(MOCK_PRODUCTS) :
                       MOCK_PRODUCTS[k].category = categories[i]
            /\ \A k \in 1..Len(MOCK_PRODUCTS) :
                   \E i \in 1..Len(categories) :
                       categories[i] = MOCK_PRODUCTS[k].category
            /\ Len(categories) = 6

C5_Witness ==
    /\ request.op = "get_categories"
    /\ response.categories[1] = Product6.category
    /\ response.categories[6] = Product1.category

\* C6: in every reachable state the catalog is its initial value, with
\* pairwise distinct ids: no handler mutates it.
C6_CatalogIsImmutable ==
    /\ MOCK_PRODUCTS = InitialProducts
    /\ \A i, j \in 1..Len(MOCK_PRODUCTS) :
           MOCK_PRODUCTS[i].id = MOCK_PRODUCTS[j].id => i = j

C6_Witness ==
    /\ request = [op |-> "search", query |-> Some(QPara)]
    /\ response.total = 6
    /\ MOCK_PRODUCTS = InitialProducts

\* C7: any two /search calls with the same query, whatever runs between
\* them, return identical results: a reply to a query the client has noted
\* before equals the noted reply.
C7_SearchIsIdempotent ==
    \A r \in Requests :
        (/\ tasks[r].pc = "done"
         /\ tasks[r].request.op = "search"
         /\ observed # None
         /\ observed.value.query = tasks[r].request.query) =>
            tasks[r].result = observed.value.response

\* Two calls with the same matching query have both returned, one of them
\* after the reply to this query was noted.
C7_Witness ==
    /\ observed # None
    /\ observed.value.query = Some(QPremiumUpper)
    /\ \A r \in {1, 2} :
           /\ tasks[r].pc = "done"
           /\ tasks[r].request = [op |-> "search", query |-> Some(QPremiumUpper)]
           /\ tasks[r].result.total = 2

\* C8: over the reference catalog, search("protein") and search("proteína")
\* each return success=true, total=1 and exactly product 1; "protein"
\* occurs in its name and "proteína" in its description, not in its name.
C8_ProteinScenarios ==
    /\ request = [op |-> "search", query |-> Some(QProtein)] =>
           /\ response.success = TRUE
           /\ response.total = 1
           /\ response.products = <<Product1>>
           /\ occurs_in(QProtein, lower(Product1.name))
    /\ request = [op |-> "search", query |-> Some(QProteina)] =>
           /\ response.success = TRUE
           /\ response.total = 1
           /\ response.products = <<Product1>>
           /\ occurs_in(QProteina, lower(Product1.description))
           /\ ~occurs_in(QProteina, lower(Product1.name))

C8_Witness ==
    /\ request = [op |-> "search", query |-> Some(QProteina)]
    /\ response.total = 1
    /\ response.products[1].id = 1

\* C9: for a non-empty query the returned products are a subsequence of
\* the catalog, no product is returned twice, and the echoed query is the
\* caller's string, not its lower-cased form.
C9_SearchKeepsCatalogOrder ==
    searched_text =>
        /\ is_subsequence(response.products, MOCK_PRODUCTS)
        /\ \A i, j \in 1..Len(response.products) :
               response.products[i] = response.products[j] => i = j
        /\ response.query = request.query.value

\* A mixed-case query that matches one product through two fields.
C9_Witness ==
    /\ request = [op |-> "search", query |-> Some(QCreatina)]
    /\ response.products = <<Product3>>
    /\ response.query = QCreatina
    /\ response.query # lower(QCreatina)

\* The results a request can return when it runs alone on the initial
\* catalog.
solo_results(req) ==
    CASE req.op = "search" ->
             {search_result(InitialProducts, req.query)}
      [] req.op = "get_product" ->
             {get_product_result(InitialProducts, req.product_id)}
      [] req.op = "get_categories" ->
             {get_categories_result(InitialProducts, order) :
                  order \in SetOrders}

\* C10: with requests interleaved in any order, every request completes,
\* its result is one it returns when run alone on the initial catalog, and
\* the catalog is never seen altered.
C10_ConcurrentRequestsAreIsolated ==
    /\ [](\A r \in Requests :
              tasks[r].pc = "done" =>
                  tasks[r].result \in solo_results(tasks[r].request))
    /\ [](MOCK_PRODUCTS = InitialProducts)
    /\ \A r \in Requests :
           (tasks[r].pc # "idle") ~> (tasks[r].pc = "done")

\* One request has returned while another is in the middle of its scan.
C10_Witness ==
    /\ tasks[1].pc = "done"
    /\ tasks[1].request.op = "get_categories"
    /\ tasks[2].pc = "search_loop"
    /\ tasks[2].i = 4
    /\ Len(tasks[2].filtered_products) = 1

====
